---- MODULE Spec2Model ----
(***************************************************************************)
(* Model of the astro-sandbox simulators:                                  *)
(*   src/Homman.py   - two-body propagator, Hohmann planner, manual        *)
(*                     transfer sequencer (the pygame driver loop)         *)
(*   src/rocketv1.py - PID controller, powered-descent dynamics and the    *)
(*                     descent driver loop                                 *)
(*                                                                         *)
(* Numbers.  The program computes in IEEE doubles.  The model computes in  *)
(* decimal fixed point: an integer n stands for the real n / SCALE.        *)
(* Sums and differences are exact; a product or quotient is rounded to the *)
(* nearest grid value (half away from zero) and, as with doubles outside   *)
(* underflow, a non-zero product or quotient never rounds to zero.         *)
(* The planner's operands (2/r, 1/a) are below the grid, so the planner    *)
(* keeps them as exact fractions and only its square roots are rounded.    *)
(***************************************************************************)
EXTENDS Integers, Sequences, FiniteSets, TLC

\* grid resolution: n stands for n / SCALE
SCALE == 10 * 10

\* products below this fit TLC's 32-bit integers after scaling by SCALE
SAFE == 10 * 1000000

Abs(n) == IF n < 0 THEN -n ELSE n
Sgn(n) == IF n < 0 THEN -1 ELSE IF n > 0 THEN 1 ELSE 0
Max(a, b) == IF a > b THEN a ELSE b
Min(a, b) == IF a < b THEN a ELSE b

\* n / d (n >= 0, d > 0) rounded to the nearest integer, half up
RndN(n, d) == (2 * n + d) \div (2 * d)

\* nearest, but a non-zero exact value never becomes 0
NonZero(exact_is_zero, q) == IF exact_is_zero THEN 0 ELSE IF q = 0 THEN 1 ELSE q

\* |a| * |b| / SCALE for a >= b >= 0: the integer part of a times b is exact
MulN(a, b) == (a \div SCALE) * b + RndN((a % SCALE) * b, SCALE)

\* fixed-point product a * b
Mul(a, b) ==
    LET hi == Max(Abs(a), Abs(b))
        lo == Min(Abs(a), Abs(b))
    IN  Sgn(a) * Sgn(b) * NonZero(a = 0 \/ b = 0, MulN(hi, lo))

\* |a| * SCALE / |b| for a >= 0, b > 0, by long division; a remainder too
\* large to scale is divided by the divisor scaled down instead
DivN(a, b) ==
    LET q == a \div b
        r == a % b
    IN  q * SCALE + (IF r < SAFE THEN RndN(r * SCALE, b) ELSE RndN(r, b \div SCALE))

\* fixed-point quotient a / b (b # 0)
Div(a, b) == Sgn(a) * Sgn(b) * NonZero(a = 0, DivN(Abs(a), Abs(b)))

\* floor of the integer square root, by bisection on [lo, hi)
RECURSIVE SqrtBisect(_, _, _)
SqrtBisect(n, lo, hi) ==
    IF hi - lo <= 1 THEN lo
    ELSE LET mid == (lo + hi) \div 2
         IN  IF mid * mid <= n THEN SqrtBisect(n, mid, hi) ELSE SqrtBisect(n, lo, mid)

ISqrt(n) == SqrtBisect(n, 0, 46341)

\* math.sqrt on the grid (rounded down); large arguments keep four digits
Sqrt(a) == IF a < SAFE THEN ISqrt(a * SCALE) ELSE ISqrt(a) * 10

(***************************************************************************)
(* State                                                                   *)
(***************************************************************************)
VARIABLES
    program,     \* which script runs: "Homman", "rocketv1", or "none" (core calls only)
    rocket,      \* RocketSimulation: [y, v, m_dry, m_fuel, thrust]
    controller,  \* PIDController: [kp, ki, kd, setpoint, integral, prev_error]
    ship,        \* Spacecraft: [x, y, vx, vy, orbit_path]
    dv,          \* Homman.main: [dv1, dv2] from calculate_hohmann_deltas()
    stage,       \* Homman.main: 0 inner orbit, 1 transfer, 2 outer orbit
    running,     \* main: the loop flag
    frame_dt,    \* main: dt, the frame's time step
    pc,          \* main: "tick" (top of the loop), "events" (event loop), "done"
    burns,       \* [dv1, dv2]: how often apply_prograde_impulse(dv1) / (dv2) ran
    call,        \* the last step: its name, arguments, pre-state, outcome
    landed,      \* an update_physics call took the altitude from > 0 to <= 0
    coasting,    \* every update_physics call so far commanded thrust 0
    frames,      \* loop iterations started (bounded by MaxFrames)
    nevents,     \* events delivered (bounded by MaxEvents)
    ncalls       \* direct core calls made (bounded by MaxCalls)

vars == <<program, rocket, controller, ship, dv, stage, running, frame_dt, pc,
          burns, call, landed, coasting, frames, nevents, ncalls>>

(***************************************************************************)
(* src/rocketv1.py - constants                                             *)
(***************************************************************************)
GRAVITY_MARS == 371
ATM_DENSITY_MARS == 2
ISP == 30000
\* 9.80665 on the grid
G0 == 981
\* the literal 0.5 of the drag formula
HALF == 50
\* RocketSimulation.__init__: max_thrust = 15000.0, area = 10.0, cd = 0.5
max_thrust == 1500000
area == 1000
cd == 50
\* PIDController.compute: the anti-windup bound 100
INTEGRAL_LIMIT == 10000

(***************************************************************************)
(* PIDController                                                           *)
(***************************************************************************)
PIDController(kp, ki, kd, setpoint) ==
    [kp |-> kp, ki |-> ki, kd |-> kd, setpoint |-> setpoint,
     integral |-> 0, prev_error |-> 0]

\* the clamp with its lower bound forgotten
ClampUpperOnly(x) == Min(x, INTEGRAL_LIMIT)

\* max(-100, min(x, 100))
ClampIntegral(x) == Max(-INTEGRAL_LIMIT, Min(x, INTEGRAL_LIMIT))

\* compute(current_val, dt): the controller after the call, the output, and
\* whether the call raised.  dt = 0 raises ZeroDivisionError at the derivative,
\* after the integral has been assigned and before prev_error is.
compute(c, current_val, dt) ==
    LET error    == c.setpoint - current_val
        integral == ClampIntegral(c.integral + Mul(error, dt))
    IN  IF dt = 0
        THEN [self |-> [c EXCEPT !.integral = integral], output |-> 0, raised |-> TRUE]
        ELSE LET derivative == Div(error - c.prev_error, dt)
                 output == Mul(c.kp, error) + Mul(c.ki, integral) + Mul(c.kd, derivative)
             IN  [self |-> [c EXCEPT !.integral = integral, !.prev_error = error],
                  output |-> output, raised |-> FALSE]

(***************************************************************************)
(* RocketSimulation                                                        *)
(***************************************************************************)
RocketSimulation(altitude, velocity, dry_mass, fuel_mass) ==
    [y |-> altitude, v |-> velocity, m_dry |-> dry_mass, m_fuel |-> fuel_mass,
     thrust |-> 0]

\* the thrust clamp without the empty-tank override
CmdThrustIgnoringFuel(m_fuel, u_cmd) == Max(0, Min(u_cmd, max_thrust))

\* 1. thrust: the command clamped to [0, max_thrust], 0 without fuel
CmdThrust(m_fuel, u_cmd) ==
    LET thrust == Max(0, Min(u_cmd, max_thrust))
    IN  IF m_fuel <= 0 THEN 0 ELSE thrust

\* fuel_burn = (thrust / (ISP * G0)) * dt
FuelBurn(thrust, dt) == Mul(Div(thrust, Mul(ISP, G0)), dt)

\* m_fuel = max(0, m_fuel - fuel_burn)
FuelAfter(m_fuel, fuel_burn) == Max(0, m_fuel - fuel_burn)

\* drag = -0.5 * ATM_DENSITY_MARS * v * abs(v) * cd * area, left to right
Drag(v) == Mul(Mul(Mul(Mul(Mul(-HALF, ATM_DENSITY_MARS), v), Abs(v)), cd), area)

\* gravity with its sign lost
GravityForceUp(total_mass) == Mul(total_mass, GRAVITY_MARS)

\* gravity_force = -total_mass * GRAVITY_MARS
GravityForce(total_mass) == -Mul(total_mass, GRAVITY_MARS)

\* acceleration = (gravity_force + drag + thrust) / total_mass
Acceleration(v, total_mass, thrust) ==
    Div(GravityForce(total_mass) + Drag(v) + thrust, total_mass)

\* the ground clamp after integration: if y < 0: y = 0; v = 0
GroundClamp(y, v) == IF y < 0 THEN [y |-> 0, v |-> 0] ELSE [y |-> y, v |-> v]

\* update_physics(u_cmd, dt): the rocket after the call and the value returned
update_physics(r, u_cmd, dt) ==
    IF r.y <= 0
    THEN [self |-> r, ret |-> FALSE]
    ELSE LET thrust       == CmdThrust(r.m_fuel, u_cmd)
             total_mass   == r.m_dry + r.m_fuel
             fuel_burn    == FuelBurn(thrust, dt)
             m_fuel       == FuelAfter(r.m_fuel, fuel_burn)
             acceleration == Acceleration(r.v, total_mass, thrust)
             v            == r.v + Mul(acceleration, dt)
             y            == r.y + Mul(v, dt)
             g            == GroundClamp(y, v)
         IN  [self |-> [r EXCEPT !.thrust = thrust, !.m_fuel = m_fuel,
                                 !.v = g.v, !.y = g.y],
              ret |-> TRUE]

(***************************************************************************)
(* src/Homman.py - constants (Python ints; Fix converts to the grid)       *)
(***************************************************************************)
MU == 1000000
R_INNER == 100
R_OUTER == 300
WIDTH == 800
HEIGHT == 600
CENTER == <<WIDTH \div 2, HEIGHT \div 2>>
\* main: sim_speed = 5 physics updates per frame
sim_speed == 5

Fix(n) == n * SCALE

(***************************************************************************)
(* Exact fractions <<numerator, denominator>>, denominator > 0, reduced    *)
(***************************************************************************)
RECURSIVE Gcd(_, _)
Gcd(a, b) == IF b = 0 THEN a ELSE Gcd(b, a % b)

Q(n, d) == LET g == Gcd(Abs(n), Abs(d)) IN <<Sgn(d) * (n \div g), Abs(d) \div g>>
QInt(n) == <<n, 1>>
QDiv(a, b) == Q(a[1] * b[2], a[2] * b[1])
QMul(a, b) == Q(a[1] * b[1], a[2] * b[2])
QAdd(a, b) == Q(a[1] * b[2] + b[1] * a[2], a[2] * b[2])
QSub(a, b) == Q(a[1] * b[2] - b[1] * a[2], a[2] * b[2])

\* math.sqrt of a fraction >= 0, rounded down to the grid
QSqrt(a) == ISqrt((a[1] * SCALE * SCALE) \div a[2])

(***************************************************************************)
(* calculate_hohmann_deltas                                                *)
(***************************************************************************)
\* the axis taken as the sum of the radii, not their mean
TransferAxisSum(r_inner, r_outer) == QAdd(QInt(r_inner), QInt(r_outer))

\* a_transfer = (R_INNER + R_OUTER) / 2
TransferAxis(r_inner, r_outer) == QDiv(QAdd(QInt(r_inner), QInt(r_outer)), QInt(2))

\* math.sqrt(MU / r): circular speed at radius r
CircularSpeed(mu, r) == QSqrt(QDiv(QInt(mu), QInt(r)))

\* math.sqrt(MU * (2 / r - 1 / a)): vis-viva speed at radius r on axis a
VisViva(mu, r, a) ==
    QSqrt(QMul(QInt(mu), QSub(QDiv(QInt(2), QInt(r)), QDiv(QInt(1), a))))

calculate_hohmann_deltas ==
    LET v_inner_circ == CircularSpeed(MU, R_INNER)
        v_outer_circ == CircularSpeed(MU, R_OUTER)
        a_transfer   == TransferAxis(R_INNER, R_OUTER)
        v_transfer_periapsis == VisViva(MU, R_INNER, a_transfer)
        v_transfer_apoapsis  == VisViva(MU, R_OUTER, a_transfer)
    IN  [dv1 |-> v_transfer_periapsis - v_inner_circ,
         dv2 |-> v_outer_circ - v_transfer_apoapsis]

(***************************************************************************)
(* Spacecraft                                                              *)
(***************************************************************************)
Spacecraft(x, y, vx, vy) == [x |-> x, y |-> y, vx |-> vx, vy |-> vy, orbit_path |-> <<>>]

\* orbit_path.append((x, y)); if len(orbit_path) > 300: orbit_path.pop(0)
Trail(path, x, y) ==
    LET p == Append(path, <<x, y>>) IN IF Len(p) > 300 THEN Tail(p) ELSE p

\* update(dt): gravity, then semi-implicit Euler (velocity first)
update(s, dt) ==
    LET rx       == s.x - Fix(CENTER[1])
        ry       == s.y - Fix(CENTER[2])
        r_mag_sq == Mul(rx, rx) + Mul(ry, ry)
        r_mag    == Sqrt(r_mag_sq)
        acc_mag  == Div(-Fix(MU), Mul(r_mag_sq, r_mag))
        ax       == Mul(acc_mag, rx)
        ay       == Mul(acc_mag, ry)
        vx       == s.vx + Mul(ax, dt)
        vy       == s.vy + Mul(ay, dt)
        x        == s.x + Mul(vx, dt)
        y        == s.y + Mul(vy, dt)
    IN  [x |-> x, y |-> y, vx |-> vx, vy |-> vy, orbit_path |-> Trail(s.orbit_path, x, y)]

\* apply_prograde_impulse(delta_v): add delta_v along the unit velocity vector
apply_prograde_impulse(s, delta_v) ==
    LET v_mag == Sqrt(Mul(s.vx, s.vx) + Mul(s.vy, s.vy))
        dir_x == Div(s.vx, v_mag)
        dir_y == Div(s.vy, v_mag)
    IN  [s EXCEPT !.vx = s.vx + Mul(dir_x, delta_v), !.vy = s.vy + Mul(dir_y, delta_v)]

\* for _ in range(n): ship.update(dt)
RECURSIVE Physics(_, _, _)
Physics(s, dt, n) == IF n = 0 THEN s ELSE Physics(update(s, dt), dt, n - 1)

\* main: ship = Spacecraft(CENTER[0] + R_INNER, CENTER[1], 0, v_initial)
MainShip ==
    LET v_initial == CircularSpeed(MU, R_INNER)
    IN  Spacecraft(Fix(CENTER[1] + R_INNER), Fix(CENTER[2]), 0, v_initial)

(***************************************************************************)
(* Inputs and bounds                                                       *)
(***************************************************************************)
\* direct core calls per behaviour
MaxCalls == 3
\* loop iterations per run of a script
MaxFrames == 3
\* events delivered per run of Homman.main
MaxEvents == 3

\* constructor arguments tried: altitudes, velocities (beyond terminal speed,
\* just under it, falling, at rest, rising), fuel masses, dry mass
AltitudeSet == {371, 1000, 100000}
VelocitySet == {-30000, -19200, -1000, 0, 1000}
FuelSet     == {0, 30, 60000}
DryMassSet  == {50000}
\* thrust commands: negative, zero, mid-range, above max_thrust
CmdSet      == {-100000, 0, 500000, 2000000}
\* time steps > 0: 0.1 and 1.0
DtSet       == {10, 100}
\* time steps a caller may pass by mistake: -0.1, 0, and 0.1
AnyDtSet    == {-10, 0, 10}
\* measured values fed to the controller
CurrentSet  == {-50000, -1000, 0, 50000}
\* clock.tick(60) results in milliseconds: two normal frames and a slow one
TickSet     == {20, 50, 120}
\* pygame events delivered to Homman.main
EventSet    == {[type |-> "QUIT", key |-> "none"], [type |-> "KEYDOWN", key |-> "K_1"],
                [type |-> "KEYDOWN", key |-> "K_2"], [type |-> "KEYDOWN", key |-> "K_SPACE"],
                [type |-> "KEYUP", key |-> "K_1"]}

NoCall == [op |-> "none"]

\* rocketv1.main: PIDController(kp=1200, ki=20, kd=800, setpoint=-2.0)
MainController == PIDController(120000, 2000, 80000, -200)
\* rocketv1.main: RocketSimulation(1000.0, -10.0, 500.0, 600.0)
MainRocket == RocketSimulation(100000, -1000, 50000, 60000)

\* the initial condition every specification shares: all but program and rocket
InitCommon ==
    /\ controller = MainController
    /\ ship = MainShip
    /\ dv = calculate_hohmann_deltas
    /\ stage = 0
    /\ running = TRUE
    /\ frame_dt = 0
    /\ pc = "tick"
    /\ burns = [dv1 |-> 0, dv2 |-> 0]
    /\ call = NoCall
    /\ landed = FALSE
    /\ coasting = TRUE
    /\ frames = 0
    /\ nevents = 0
    /\ ncalls = 0

rocketVars == <<rocket, landed, coasting>>
hommanVars == <<ship, dv, stage, burns>>
loopVars   == <<running, frame_dt, pc, frames, nevents>>

(***************************************************************************)
(* Direct core calls                                                       *)
(***************************************************************************)
\* rocket.update_physics(u_cmd, dt)
UpdatePhysics(u_cmd, dt) ==
    LET res == update_physics(rocket, u_cmd, dt)
    IN  /\ rocket' = res.self
        /\ call' = [op |-> "update_physics", u_cmd |-> u_cmd, dt |-> dt,
                    pre |-> rocket, ret |-> res.ret, raised |-> FALSE]
        /\ landed' = (landed \/ (rocket.y > 0 /\ res.self.y <= 0))
        /\ coasting' = (coasting /\ u_cmd = 0)
        /\ ncalls' = ncalls + 1
        /\ UNCHANGED <<program, controller, hommanVars, loopVars>>

\* controller.compute(current_val, dt)
Compute(current_val, dt) ==
    LET res == compute(controller, current_val, dt)
    IN  /\ controller' = res.self
        /\ call' = [op |-> "compute", current_val |-> current_val, dt |-> dt,
                    pre |-> controller, ret |-> res.output, raised |-> res.raised]
        /\ ncalls' = ncalls + 1
        /\ UNCHANGED <<program, rocketVars, hommanVars, loopVars>>

\* ship.update(dt)
Update(dt) ==
    /\ ship' = update(ship, dt)
    /\ call' = [op |-> "update", dt |-> dt, pre |-> ship, raised |-> FALSE]
    /\ ncalls' = ncalls + 1
    /\ UNCHANGED <<program, rocket, controller, landed, coasting, dv, stage, burns, loopVars>>

(***************************************************************************)
(* SpecRocket: a RocketSimulation driven by arbitrary commands, dt > 0     *)
(***************************************************************************)
InitRocket ==
    /\ program = "none"
    /\ rocket \in {RocketSimulation(a, v, d, f) :
                     a \in AltitudeSet, v \in VelocitySet, d \in DryMassSet, f \in FuelSet}
    /\ InitCommon

RocketStep ==
    /\ ncalls < MaxCalls
    /\ \E u_cmd \in CmdSet, dt \in DtSet : UpdatePhysics(u_cmd, dt)

NextRocket == RocketStep

SpecRocket == InitRocket /\ [][NextRocket]_vars

(***************************************************************************)
(* SpecPID: a PIDController fed arbitrary measurements, dt > 0             *)
(***************************************************************************)
InitCore ==
    /\ program = "none"
    /\ rocket = MainRocket
    /\ InitCommon

PIDStep ==
    /\ ncalls < MaxCalls
    /\ \E current_val \in CurrentSet, dt \in DtSet : Compute(current_val, dt)

NextPID == PIDStep

SpecPID == InitCore /\ [][NextPID]_vars

(***************************************************************************)
(* SpecAnyDt: the three integrators called with any dt, also dt <= 0       *)
(***************************************************************************)
AnyCompute ==
    /\ ncalls < MaxCalls
    /\ \E current_val \in CurrentSet, dt \in AnyDtSet : Compute(current_val, dt)

AnyUpdatePhysics ==
    /\ ncalls < MaxCalls
    /\ \E u_cmd \in CmdSet, dt \in AnyDtSet : UpdatePhysics(u_cmd, dt)

AnyUpdate ==
    /\ ncalls < MaxCalls
    /\ \E dt \in AnyDtSet : Update(dt)

NextAnyDt == AnyCompute \/ AnyUpdatePhysics \/ AnyUpdate

SpecAnyDt == InitCore /\ [][NextAnyDt]_vars

(***************************************************************************)
(* SpecMain: one run of either script's driver loop                        *)
(***************************************************************************)
\* dt = clock.tick(60) / 1000.0
FrameDt(ms) == Div(Fix(ms), Fix(1000))

\* rocketv1.main: if dt > 0.1: dt = 0.1
CapDt(raw) == IF raw > 10 THEN 10 ELSE raw

\* the key tests without their stage guards
Fires1AnyStage(e, st) == e.key = "K_1"
Fires2AnyStage(e, st) == e.key = "K_2"

\* Homman.main: event.key == pygame.K_1 and stage == 0
Fires1(e, st) == e.key = "K_1" /\ st = 0
\* Homman.main: event.key == pygame.K_2 and stage == 1
Fires2(e, st) == e.key = "K_2" /\ st = 1

InitMain ==
    /\ program \in {"Homman", "rocketv1"}
    /\ rocket = MainRocket
    /\ InitCommon

\* Homman.main, top of the loop: while running: dt = clock.tick(60) / 1000.0
HommanTick ==
    /\ program = "Homman" /\ pc = "tick" /\ frames < MaxFrames
    /\ \E ms \in TickSet : frame_dt' = FrameDt(ms)
    /\ pc' = "events"
    /\ frames' = frames + 1
    /\ call' = [op |-> "tick"]
    /\ UNCHANGED <<program, rocket, controller, rocketVars, hommanVars, running,
                   nevents, ncalls>>

\* Homman.main, one event of the for loop over pygame.event.get()
HommanEvent ==
    /\ program = "Homman" /\ pc = "events" /\ nevents < MaxEvents
    /\ \E e \in EventSet :
          /\ call' = [op |-> "event", event |-> e, stage |-> stage, pre |-> ship]
          /\ IF e.type = "QUIT"
             THEN running' = FALSE /\ UNCHANGED <<ship, stage, burns>>
             ELSE IF e.type = "KEYDOWN" /\ Fires1(e, stage)
             THEN /\ ship' = apply_prograde_impulse(ship, dv.dv1)
                  /\ burns' = [burns EXCEPT !.dv1 = @ + 1]
                  /\ stage' = 1
                  /\ UNCHANGED running
             ELSE IF e.type = "KEYDOWN" /\ Fires2(e, stage)
             THEN /\ ship' = apply_prograde_impulse(ship, dv.dv2)
                  /\ burns' = [burns EXCEPT !.dv2 = @ + 1]
                  /\ stage' = 2
                  /\ UNCHANGED running
             ELSE UNCHANGED <<running, ship, stage, burns>>
    /\ nevents' = nevents + 1
    /\ UNCHANGED <<program, rocket, controller, rocketVars, dv, frame_dt, pc, frames, ncalls>>

\* Homman.main, after the events: for _ in range(sim_speed): ship.update(dt);
\* then the loop test
HommanPhysics ==
    /\ program = "Homman" /\ pc = "events"
    /\ ship' = Physics(ship, frame_dt, sim_speed)
    /\ call' = [op |-> "physics", dt |-> frame_dt, pre |-> ship]
    /\ pc' = IF running THEN "tick" ELSE "done"
    /\ UNCHANGED <<program, rocket, controller, rocketVars, dv, stage, burns, running,
                   frame_dt, frames, nevents, ncalls>>

\* rocketv1.main, one iteration of the loop
DescentFrame ==
    /\ program = "rocketv1" /\ pc = "tick" /\ frames < MaxFrames
    /\ \E ms \in TickSet, quit \in BOOLEAN :
          LET dt == CapDt(FrameDt(ms))
              current_weight == Mul(rocket.m_dry + rocket.m_fuel, GRAVITY_MARS)
              pid == compute(controller, rocket.v, dt)
              thrust_cmd == pid.output + current_weight
              res == update_physics(rocket, thrust_cmd, dt)
          IN  /\ frame_dt' = dt
              /\ running' = ~quit
              /\ controller' = pid.self
              /\ rocket' = res.self
              /\ landed' = (landed \/ (rocket.y > 0 /\ res.self.y <= 0))
              /\ coasting' = (coasting /\ thrust_cmd = 0)
              /\ call' = [op |-> "descent", dt |-> dt, u_cmd |-> thrust_cmd,
                          pre |-> rocket, ret |-> res.ret]
              /\ pc' = IF quit THEN "done" ELSE "tick"
    /\ frames' = frames + 1
    /\ UNCHANGED <<program, hommanVars, nevents, ncalls>>

NextMain == HommanTick \/ HommanEvent \/ HommanPhysics \/ DescentFrame

SpecMain == InitMain /\ [][NextMain]_vars

(***************************************************************************)
(* Claims                                                                  *)
(***************************************************************************)
IsKeyDown(k) == call.op = "event" /\ call.event.type = "KEYDOWN" /\ call.event.key = k
IsPhysicsCall == call.op = "update_physics"

\* C1: in the Hohmann driver loop each impulse is applied at most once, stage
\* only moves 0 -> 1 -> 2 (each move applying exactly its impulse), and once
\* stage = 2 no step changes stage or applies an impulse and no event changes
\* the ship.
C1_ImpulsesOnceStagesForward ==
    /\ [](burns.dv1 <= 1 /\ burns.dv2 <= 1)
    /\ [][ /\ \/ stage' = stage /\ burns' = burns
              \/ stage = 0 /\ stage' = 1 /\ burns' = [burns EXCEPT !.dv1 = @ + 1]
              \/ stage = 1 /\ stage' = 2 /\ burns' = [burns EXCEPT !.dv2 = @ + 1]
           /\ stage = 2 => /\ stage' = 2
                           /\ burns' = burns
                           /\ (call'.op = "event" => ship' = ship) ]_vars

\* C1 witness: both impulses were applied and key 2 was pressed again in stage 2
C1_Witness ==
    /\ stage = 2 /\ burns.dv1 = 1 /\ burns.dv2 = 1
    /\ IsKeyDown("K_2") /\ call.stage = 2

\* C2: once a call has brought the rocket to the ground, every later
\* update_physics call leaves altitude exactly 0 and velocity exactly 0.
C2_GroundedStaysAtRest ==
    (landed /\ IsPhysicsCall /\ call.pre.y <= 0) => (rocket.y = 0 /\ rocket.v = 0)

\* C3 as claimed: fuel never increases, is never negative, and every call that
\* starts with m_fuel = 0 leaves self.thrust = 0.
C3_Original ==
    IsPhysicsCall =>
        /\ rocket.m_fuel <= call.pre.m_fuel
        /\ rocket.m_fuel >= 0
        /\ (call.pre.m_fuel = 0 => rocket.thrust = 0)

\* C3: fuel never increases and is never negative, and every call that starts
\* above the ground with m_fuel = 0 leaves self.thrust = 0 whatever u_cmd is.
C3_FuelAndThrust ==
    /\ rocket.m_fuel >= 0
    /\ IsPhysicsCall =>
          /\ rocket.m_fuel <= call.pre.m_fuel
          /\ (call.pre.m_fuel = 0 /\ call.pre.y > 0 => rocket.thrust = 0)

\* C3 witness: the tank ran dry under thrust, and the next call, still in
\* flight, was commanded a positive thrust
C3_Witness ==
    /\ IsPhysicsCall /\ call.pre.y > 0
    /\ call.pre.m_fuel = 0 /\ call.pre.thrust > 0 /\ call.u_cmd > 0
    /\ rocket.thrust = 0

\* C4: after every compute call the integral lies within [-100, 100].
C4_IntegralClamped ==
    /\ controller.integral >= -INTEGRAL_LIMIT
    /\ controller.integral <= INTEGRAL_LIMIT

\* C4 witness: a second or later call whose sustained negative error would
\* have taken the integral below -100
C4_Witness ==
    /\ call.op = "compute" /\ ncalls >= 2
    /\ call.pre.integral + Mul(controller.setpoint - call.current_val, call.dt)
         < -INTEGRAL_LIMIT
    /\ controller.integral = -INTEGRAL_LIMIT

\* the last call coasted (thrust 0 throughout) from above the ground and did
\* not reach it
CoastedInFlight == coasting /\ IsPhysicsCall /\ call.pre.y > 0 /\ rocket.y > 0

\* the rocket was not rising and drag was below weight (under terminal speed)
FallingBelowTerminal ==
    /\ call.pre.v <= 0
    /\ Drag(call.pre.v) < Mul(call.pre.m_dry + call.pre.m_fuel, GRAVITY_MARS)

\* C5 as claimed: with thrust 0 throughout, every call before ground contact
\* strictly lowers altitude and velocity.
C5_Original ==
    CoastedInFlight => (rocket.y < call.pre.y /\ rocket.v < call.pre.v)

\* C5: with thrust 0 throughout, every call before ground contact that starts
\* with velocity <= 0 and drag below weight strictly lowers altitude and velocity.
C5_CoastingDescent ==
    (CoastedInFlight /\ FallingBelowTerminal)
        => (rocket.y < call.pre.y /\ rocket.v < call.pre.v)

\* C5 witness: a second or later coasting call of a falling rocket in flight
C5_Witness ==
    CoastedInFlight /\ FallingBelowTerminal /\ ncalls >= 2 /\ call.pre.v < 0

\* C6: a call that starts above the ground and ends at or below it leaves
\* altitude 0, velocity 0 and returns False; one that ends above it returns True.
C6_ContactReported ==
    (IsPhysicsCall /\ call.pre.y > 0) =>
        /\ rocket.y <= 0 => (rocket.y = 0 /\ rocket.v = 0 /\ call.ret = FALSE)
        /\ rocket.y > 0 => call.ret = TRUE

\* a key pressed in a stage that does not accept it
WrongStageKey ==
    \/ IsKeyDown("K_2") /\ call.stage = 0
    \/ IsKeyDown("K_1") /\ call.stage \in {1, 2}

\* C7: a key-2 command in stage 0, and a key-1 command in stage 1 or 2, leave
\* stage and the ship's velocity unchanged; dv2 is never applied before dv1.
C7_WrongStageNoOp ==
    /\ WrongStageKey =>
          (stage = call.stage /\ ship.vx = call.pre.vx /\ ship.vy = call.pre.vy)
    /\ burns.dv2 > 0 => burns.dv1 > 0

\* C7 witness: key 2 was pressed in stage 0 after the ship had moved
C7_Witness == IsKeyDown("K_2") /\ call.stage = 0 /\ frames >= 2 /\ ship.vx # 0

\* C8: a call of compute, update_physics or update with dt <= 0 is rejected
\* and leaves the object's state unchanged.
C8_NonPositiveDtRejected ==
    (call.op \in {"compute", "update_physics", "update"} /\ call.dt <= 0) =>
        /\ call.raised
        /\ call.op = "compute" =>
              /\ controller.integral = call.pre.integral
              /\ controller.prev_error = call.pre.prev_error
        /\ call.op = "update_physics" =>
              /\ rocket.y = call.pre.y /\ rocket.v = call.pre.v
              /\ rocket.m_fuel = call.pre.m_fuel /\ rocket.thrust = call.pre.thrust
        /\ call.op = "update" =>
              /\ ship.x = call.pre.x /\ ship.y = call.pre.y
              /\ ship.vx = call.pre.vx /\ ship.vy = call.pre.vy

\* C9: in both driver loops every dt handed to the physics is at most 0.1.
C9_DtCapped == call.op \in {"physics", "descent"} => call.dt <= 10

\* C10 as claimed: dv1 is 76.0 and dv2 is 35.2, to the digit given.
C10_Original == Abs(dv.dv1 - 7600) <= 5 /\ Abs(dv.dv2 - 3520) <= 5

\* C10: dv1 is 22.47 and dv2 is 16.91 to within 0.01, i.e. 22.5 and 16.9 to
\* three figures; the speeds behind them bracket the vis-viva values
\* 15000 = mu (2/r_inner - 1/a) and 5000/3 = mu (2/r_outer - 1/a) when squared.
C10_Deltas ==
    /\ Abs(dv.dv1 - 2247) <= 1 /\ Abs(dv.dv2 - 1691) <= 1
    /\ LET v_peri == dv.dv1 + 10000
       IN  (v_peri - 1) * (v_peri - 1) <= 150000000 /\ 150000000 <= (v_peri + 1) * (v_peri + 1)
    /\ LET v_apo == 5773 - dv.dv2
       IN  (v_apo - 1) * (v_apo - 1) * 3 <= 50000000 /\ 50000000 <= (v_apo + 1) * (v_apo + 1) * 3

\* C10 witness: key 1 in the first frame added exactly dv1 to the circular
\* speed of the inner orbit
C10_Witness ==
    /\ program = "Homman" /\ stage = 1 /\ IsKeyDown("K_1")
    /\ call.pre.vx = 0 /\ ship.vy - call.pre.vy = dv.dv1 /\ dv.dv1 > 0

====
